---- MODULE Spec2Model ----
(***************************************************************************)
(* Model of scripts/azure_config_collector.py: WorkflowParser (ordering of *)
(* the actions of a Logic App workflow, per-action documentation record,   *)
(* redaction of inputs, markdown rendering) and ConfigurationAggregator.   *)
(*                                                                         *)
(* Encoding of Python values:                                              *)
(*   - a JSON value is a node [t, s, kids]: t is the type tag ("dict",     *)
(*     "list", "str", "num", "null", or "absent" for a missing key), s the *)
(*     text of a scalar, kids the entries [k, v] of a dict (insertion      *)
(*     order) or of a list (k = "");                                       *)
(*   - Python's None in a string-valued field is the string PyNone;        *)
(*   - a Python set of strings iterates in the order of the strings' hash  *)
(*     values, which CPython draws per interpreter process: hashOrder is   *)
(*     that order, any permutation of the keys.                            *)
(***************************************************************************)
EXTENDS Integers, Sequences, FiniteSets, TLC

VARIABLES
    definition,   \* the workflow definition handed to parse_workflow
    hashOrder,    \* iteration order of set(actions.keys()) in this process
    pc,           \* "call", "order", "returned", "raised", "rendered", "agg"
    ordered,      \* _order_actions: ordered
    remaining,    \* _order_actions: remaining
    iteration,    \* _order_actions: iteration
    running,      \* _order_actions: the while loop has not been left
    result,       \* parse_workflow: result
    doc,          \* generate_markdown: lines
    firstOrder,   \* the execution order an earlier process computed, or <<>>
    runs,         \* number of parse runs started on this definition
    config,       \* ConfigurationAggregator.config
    calls,        \* the operations made on the aggregator, in order
    before        \* config as it was when the last of them was called

vars == <<definition, hashOrder, pc, ordered, remaining, iteration, running,
          result, doc, firstOrder, runs, config, calls, before>>

parserVars == <<definition, hashOrder, ordered, remaining, iteration, running,
                result, doc, firstOrder, runs>>

(***************************************************************************)
(* Bounds of the model.                                                    *)
(***************************************************************************)
MaxActions == 3
MaxEdges == 2
MaxShapeActions == 2
MaxLiveActions == 2
MaxRuns == 2
MaxCalls == 3

(***************************************************************************)
(* Strings.                                                                *)
(***************************************************************************)
PyNone == "None"

Min(a, b) == IF a < b THEN a ELSE b

LowerChar(c) ==
    CASE c = "A" -> "a" [] c = "B" -> "b" [] c = "C" -> "c" [] c = "D" -> "d"
      [] c = "E" -> "e" [] c = "F" -> "f" [] c = "G" -> "g" [] c = "H" -> "h"
      [] c = "I" -> "i" [] c = "J" -> "j" [] c = "K" -> "k" [] c = "L" -> "l"
      [] c = "M" -> "m" [] c = "N" -> "n" [] c = "O" -> "o" [] c = "P" -> "p"
      [] c = "Q" -> "q" [] c = "R" -> "r" [] c = "S" -> "s" [] c = "T" -> "t"
      [] c = "U" -> "u" [] c = "V" -> "v" [] c = "W" -> "w" [] c = "X" -> "x"
      [] c = "Y" -> "y" [] c = "Z" -> "z" [] OTHER -> c

\* s.lower(), from the i-th character on
RECURSIVE LowerFrom(_, _)
LowerFrom(s, i) ==
    IF i > Len(s) THEN "" ELSE LowerChar(SubSeq(s, i, i)) \o LowerFrom(s, i + 1)

Lower(s) == LowerFrom(s, 1)

\* s[i-1:j]
Slice(s, i, j) == SubSeq(s, i, Min(j, Len(s)))

\* Python's `sub in s` on strings
Contains(sub, s) ==
    \E t \in {s} : \E i \in 1..(Len(t) - Len(sub) + 1) : SubSeq(t, i, i + Len(sub) - 1) = sub

\* s.split("/")[-1]
LastSegment(s) ==
    LET slashes == {i \in 1..Len(s) : SubSeq(s, i, i) = "/"}
    IN  IF slashes = {} THEN s
        ELSE SubSeq(s, (CHOOSE i \in slashes : \A j \in slashes : j <= i) + 1, Len(s))

\* ", ".join(names) or "-"
RECURSIVE JoinComma(_)
JoinComma(names) ==
    IF Len(names) = 0 THEN ""
    ELSE IF Len(names) = 1 THEN names[1]
    ELSE names[1] \o ", " \o JoinComma(Tail(names))

(***************************************************************************)
(* JSON values.                                                            *)
(***************************************************************************)
Absent == [t |-> "absent", s |-> "", kids |-> <<>>]
Null == [t |-> "null", s |-> "", kids |-> <<>>]
Str(x) == [t |-> "str", s |-> x, kids |-> <<>>]
Num(x) == [t |-> "num", s |-> x, kids |-> <<>>]
Dict(entries) == [t |-> "dict", s |-> "", kids |-> entries]
List(items) == [t |-> "list", s |-> "", kids |-> items]
KV(key, val) == [k |-> key, v |-> val]
Item(val) == [k |-> "", v |-> val]
EmptyDict == Dict(<<>>)

IsDict(v) == v.t = "dict"

\* d.get(key): the value under key, Absent when there is none
Get(d, key) ==
    IF \E i \in 1..Len(d.kids) : d.kids[i].k = key
    THEN d.kids[CHOOSE i \in 1..Len(d.kids) : d.kids[i].k = key].v
    ELSE Absent

\* d.get(key, default)
GetOr(d, key, default) == IF Get(d, key) = Absent THEN default ELSE Get(d, key)

\* truth value of a JSON value in an `if`
Truthy(v) ==
    CASE v.t \in {"absent", "null"} -> FALSE
      [] v.t = "str" -> v.s # ""
      [] v.t = "num" -> v.s # "0"
      [] OTHER -> Len(v.kids) > 0

(***************************************************************************)
(* The actions mapping: a sequence of [name, type, runAfter, inputs] in    *)
(* the mapping's iteration order; runAfter is the sequence of its keys.    *)
(***************************************************************************)
Keys(actions) == {actions[i].name : i \in 1..Len(actions)}

ActionNamed(actions, name) ==
    actions[CHOOSE i \in 1..Len(actions) : actions[i].name = name]

IndexOf(seq, x) == CHOOSE i \in 1..Len(seq) : seq[i] = x

InSeq(x, seq) == \E i \in 1..Len(seq) : seq[i] = x

SeqRange(seq) == {seq[i] : i \in 1..Len(seq)}

\* the subsequence of seq of the elements in set S
RECURSIVE Restrict(_, _)
Restrict(seq, S) ==
    IF Len(seq) = 0 THEN <<>>
    ELSE IF Head(seq) \in S THEN <<Head(seq)>> \o Restrict(Tail(seq), S)
    ELSE Restrict(Tail(seq), S)

\* list(remaining), and the order in which ordered.extend(remaining) reads it
SetIteration(order, S) == Restrict(order, S)

\* max_iterations = len(actions) * 2
MaxIterations(actions) == Len(actions) * 2

\* all(d in ordered for d in deps)
PlaceableAny(actions, ord, name) ==
    LET deps == ActionNamed(actions, name).runAfter
    IN  Len(deps) = 0 \/ \E i \in 1..Len(deps) : InSeq(deps[i], ord)

Placeable(actions, ord, name) ==
    LET deps == ActionNamed(actions, name).runAfter
    IN  \A i \in 1..Len(deps) : InSeq(deps[i], ord)

\* ordered.extend(remaining)
ExtendDropped(order, ord, rem) == ord

ExtendInFront(order, ord, rem) == SetIteration(order, rem) \o ord

ExtendRemaining(order, ord, rem) == ord \o SetIteration(order, rem)

\* One evaluation of the while loop of _order_actions: the loop test and, when
\* it passes, one scan of list(remaining).
OrderStepNaive(actions, order, st) ==
    IF st.remaining # {}
    THEN LET scan == SetIteration(order, st.remaining)
             hits == {i \in 1..Len(scan) : Placeable(actions, st.ordered, scan[i])}
         IN  IF hits # {}
             THEN LET name == scan[CHOOSE i \in hits : \A j \in hits : i <= j]
                  IN  [ordered |-> Append(st.ordered, name),
                       remaining |-> st.remaining \ {name},
                       iteration |-> st.iteration + 1,
                       running |-> TRUE]
             ELSE [st EXCEPT !.iteration = st.iteration + 1]
    ELSE [st EXCEPT !.running = FALSE]

OrderStep(actions, order, st) ==
    IF st.remaining # {} /\ st.iteration < MaxIterations(actions)
    THEN LET scan == SetIteration(order, st.remaining)
             hits == {i \in 1..Len(scan) : Placeable(actions, st.ordered, scan[i])}
         IN  IF hits # {}
             THEN LET name == scan[CHOOSE i \in hits : \A j \in hits : i <= j]
                  IN  [ordered |-> Append(st.ordered, name),
                       remaining |-> st.remaining \ {name},
                       iteration |-> st.iteration + 1,
                       running |-> TRUE]
             ELSE [ordered |-> ExtendRemaining(order, st.ordered, st.remaining),
                   remaining |-> st.remaining,
                   iteration |-> st.iteration + 1,
                   running |-> FALSE]
    ELSE [st EXCEPT !.running = FALSE]

OrderStart(actions) ==
    [ordered |-> <<>>, remaining |-> Keys(actions), iteration |-> 0, running |-> TRUE]

RECURSIVE OrderLoop(_, _, _)
OrderLoop(actions, order, st) ==
    IF st.running
    THEN CHOOSE final \in {OrderLoop(actions, order, next) :
                              next \in {OrderStep(actions, order, st)}} : TRUE
    ELSE st

\* _order_actions(actions) in a process whose set order is `order`
OrderActions(actions, order) == OrderLoop(actions, order, OrderStart(actions)).ordered

(***************************************************************************)
(* Per-action documentation.  An operation that raises (AttributeError or  *)
(* TypeError on a value of the wrong type) is a predicate ...Raises; the   *)
(* value operators are read only where the predicate is false.             *)
(***************************************************************************)
DescTruncate == 50

REDACTED == "[REDACTED]"

\* str(v) as an f-string prints it; a container prints as a placeholder
Text(v) ==
    CASE v.t \in {"str", "num"} -> v.s
      [] v.t \in {"null", "absent"} -> PyNone
      [] v.t = "dict" -> "{...}"
      [] OTHER -> "[...]"

\* s[:50]
Truncate(s) == Slice(s, 1, DescTruncate)

\* action.get("inputs", {})
InputsOf(action) == IF action.inputs = Absent THEN EmptyDict ELSE action.inputs

DescribeApiConnectionRaises(inputs) ==
    \/ ~IsDict(inputs)
    \/ LET host == GetOr(inputs, "host", EmptyDict)
       IN  \/ ~IsDict(host)
           \/ LET api_id == GetOr(host, "apiId", Str(""))
                  path == GetOr(inputs, "path", Str(""))
              IN  \/ api_id.t # "str"
                  \/ /\ Contains("sql", Lower(api_id.s))
                     /\ path.t # "str"
                  \/ /\ ~Contains("sql", Lower(api_id.s))
                     /\ ~Contains("office365", Lower(api_id.s))
                     /\ ~Contains("keyvault", Lower(api_id.s))
                     /\ Truthy(path)
                     /\ path.t \notin {"str", "list"}

DescribeApiConnection(inputs) ==
    LET host == GetOr(inputs, "host", EmptyDict)
        api_id == GetOr(host, "apiId", Str("")).s
        path == GetOr(inputs, "path", Str(""))
        method == GetOr(inputs, "method", Str(""))
    IN  IF Contains("sql", Lower(api_id))
        THEN IF Contains("executestoredprocedure", Lower(path.s))
             THEN "Execute SQL stored procedure: " \o
                  (IF Contains("/", path.s) THEN LastSegment(path.s) ELSE "stored procedure")
             ELSE IF Contains("executequery", Lower(path.s))
             THEN "Execute SQL query"
             ELSE "SQL Server operation"
        ELSE IF Contains("office365", Lower(api_id)) THEN "Office 365 operation"
        ELSE IF Contains("keyvault", Lower(api_id)) THEN "Key Vault secret operation"
        ELSE "API Connection: " \o Text(method) \o " " \o
             (IF Truthy(path)
              THEN (IF path.t = "str" THEN Truncate(path.s) ELSE Text(path))
              ELSE "operation")

DescribeActionRaises(action) ==
    LET inputs == InputsOf(action)
    IN  CASE action.type = "Response" -> ~IsDict(inputs)
          [] action.type = "Http" ->
                \/ ~IsDict(inputs)
                \/ GetOr(inputs, "uri", Str("external service")).t \notin {"str", "list"}
          [] action.type = "ApiConnection" -> DescribeApiConnectionRaises(inputs)
          [] OTHER -> FALSE

DescribeAction(action) ==
    LET a_type == IF action.type = PyNone THEN "Unknown" ELSE action.type
        inputs == InputsOf(action)
    IN  CASE a_type = "Response" ->
                "Return HTTP " \o Text(GetOr(inputs, "statusCode", Num("200"))) \o " response"
          [] a_type = "Compose" -> "Transform/compose data"
          [] a_type = "ParseJson" -> "Parse JSON content"
          [] a_type = "Condition" -> "Conditional branch (If/Then/Else)"
          [] a_type = "ForEach" -> "Loop through collection"
          [] a_type = "Switch" -> "Switch/case evaluation"
          [] a_type = "Scope" -> "Grouped actions scope"
          [] a_type = "InitializeVariable" -> "Initialize variable"
          [] a_type = "SetVariable" -> "Set variable value"
          [] a_type = "AppendToArrayVariable" -> "Append to array"
          [] a_type = "Http" ->
                LET uri == GetOr(inputs, "uri", Str("external service"))
                IN  "HTTP " \o Text(GetOr(inputs, "method", Str("GET"))) \o " call to " \o
                    (IF uri.t = "str" THEN Truncate(uri.s) ELSE Text(uri))
          [] a_type = "ApiConnection" -> DescribeApiConnection(inputs)
          [] OTHER -> a_type \o " action"

\* _extract_connection: the referenceName value, Absent for None
ExtractConnection(action) ==
    LET inputs == InputsOf(action)
    IN  IF IsDict(inputs)
        THEN LET host == GetOr(inputs, "host", EmptyDict)
             IN  IF IsDict(host)
                 THEN LET conn == GetOr(host, "connection", EmptyDict)
                      IN  IF IsDict(conn) THEN Get(conn, "referenceName") ELSE Absent
                 ELSE Absent
        ELSE Absent

\* inputs.host.apiId as _identify_data_source reads it
DataSourceApiId(action) ==
    LET inputs == InputsOf(action)
        host == IF IsDict(inputs) THEN GetOr(inputs, "host", EmptyDict) ELSE EmptyDict
    IN  IF IsDict(host) THEN GetOr(host, "apiId", Str("")) ELSE Str("")

IdentifyDataSourceRaises(action) ==
    LET api_id == DataSourceApiId(action)
    IN  \/ api_id.t # "str"
        \/ /\ Contains("sql", Lower(api_id.s))
           /\ Truthy(Get(InputsOf(action), "path"))
           /\ Get(InputsOf(action), "path").t # "str"

NoDataSource == [type |-> PyNone, action |-> PyNone, operation |-> PyNone]

\* _identify_data_source: the entry, NoDataSource for None; operation is PyNone
\* where the entry has no "operation" key
IdentifyDataSource(action) ==
    LET api_id == Lower(DataSourceApiId(action).s)
        path == Get(InputsOf(action), "path")
    IN  IF Contains("sql", api_id)
        THEN [type |-> "SQL Server", action |-> action.type,
              operation |-> IF Truthy(path) THEN LastSegment(path.s) ELSE "query"]
        ELSE IF Contains("sharepointonline", api_id)
        THEN [type |-> "SharePoint Online", action |-> action.type, operation |-> PyNone]
        ELSE IF Contains("azureblob", api_id)
        THEN [type |-> "Azure Blob Storage", action |-> action.type, operation |-> PyNone]
        ELSE NoDataSource

\* sensitive_keys and the test any(s in k.lower() for s in sensitive_keys)
SensitiveKeys == {"authentication", "password", "secret", "key", "token", "sig"}

IsSensitive(key) == \E w \in SensitiveKeys : Contains(w, Lower(key))

RECURSIVE SanitizeInputs(_)
SanitizeInputs(inputs) ==
    IF ~IsDict(inputs) THEN EmptyDict
    ELSE Dict([i \in 1..Len(inputs.kids) |->
                 LET e == inputs.kids[i]
                 IN  IF IsSensitive(e.k) THEN KV(e.k, Str(REDACTED))
                     ELSE IF IsDict(e.v) THEN KV(e.k, SanitizeInputs(e.v))
                     ELSE e])

\* the action_info of lines 48-54
ActionInfo(action) ==
    [name |-> action.name,
     type |-> action.type,
     description |-> DescribeAction(action),
     run_after |-> action.runAfter,
     inputs |-> SanitizeInputs(InputsOf(action))]

ActionRaises(action) == DescribeActionRaises(action) \/ IdentifyDataSourceRaises(action)

\* if conn and conn not in result["connections"]: append
AddConnectionDup(conns, conn) == IF Truthy(conn) THEN Append(conns, conn) ELSE conns

AddConnection(conns, conn) ==
    IF Truthy(conn) /\ ~InSeq(conn, conns) THEN Append(conns, conn) ELSE conns

\* one pass of the loop of lines 46-65 over the action named `name`
ParseAction(actions, res, name) ==
    LET action == ActionNamed(actions, name)
        ds == IdentifyDataSource(action)
    IN  IF ActionRaises(action) THEN [res EXCEPT !.raised = TRUE]
        ELSE [res EXCEPT
                !.actions = Append(@, ActionInfo(action)),
                !.connections = AddConnection(@, ExtractConnection(action)),
                !.data_sources = IF ds = NoDataSource THEN @ ELSE Append(@, ds)]

RECURSIVE ParseActionsLoop(_, _, _)
ParseActionsLoop(actions, res, names) ==
    IF Len(names) = 0 \/ res.raised THEN res
    ELSE CHOOSE final \in {ParseActionsLoop(actions, next, Tail(names)) :
                              next \in {ParseAction(actions, res, Head(names))}} : TRUE

\* _describe_trigger
DescribeTrigger(trigger) ==
    LET t_type == IF trigger.type = PyNone THEN "Unknown" ELSE trigger.type
    IN  CASE t_type = "Request" ->
                "HTTP " \o Text(GetOr(trigger.inputs, "method", Str("POST"))) \o
                " Request - Receives incoming API calls"
          [] t_type = "Recurrence" ->
                "Scheduled - Runs every " \o
                Text(GetOr(trigger.recurrence, "interval", Num("1"))) \o " " \o
                Lower(Text(GetOr(trigger.recurrence, "frequency", Str("Day")))) \o "(s)"
          [] t_type = "ApiConnection" ->
                "API Connection - Triggered by external service event"
          [] OTHER -> t_type \o " trigger"

TriggerInfo(trigger) ==
    [name |-> trigger.name, type |-> trigger.type, kind |-> trigger.kind,
     description |-> DescribeTrigger(trigger)]

\* result as initialised at lines 21-28; raised marks an exception leaving parse
EmptyResult ==
    [triggers |-> <<>>, actions |-> <<>>, connections |-> <<>>,
     data_sources |-> <<>>, parameters |-> <<>>, variables |-> <<>>,
     raised |-> FALSE]

WithTriggers(def) ==
    [EmptyResult EXCEPT !.triggers = [i \in 1..Len(def.triggers) |-> TriggerInfo(def.triggers[i])]]

\* parse_workflow(definition) in a process whose set order is `order`
ParseWorkflow(def, order) ==
    IF def.empty THEN EmptyResult
    ELSE CHOOSE parsed \in {ParseActionsLoop(def.actions, WithTriggers(def), names) :
                               names \in {OrderActions(def.actions, order)}} : TRUE

(***************************************************************************)
(* generate_markdown: the lines of the document, each a kind and its       *)
(* formatted fields.                                                       *)
(***************************************************************************)
Line(kind, cells) == [kind |-> kind, cells |-> cells]

Blank == Line("blank", <<>>)

DependsOnNoDash(run_after) == JoinComma(run_after)

\* ", ".join(a.get("run_after", [])) or "-"
DependsOn(run_after) == IF JoinComma(run_after) = "" THEN "-" ELSE JoinComma(run_after)

StepIndexFromZero(i) == ToString(i - 1)

\* enumerate(parsed.get("actions", []), 1)
StepIndex(i) == ToString(i)

ActionRow(i, a) ==
    Line("row", <<StepIndex(i), a.name, a.type, a.description, DependsOn(a.run_after)>>)

GenerateMarkdown(parsed, workflow_name) ==
    <<Line("heading", <<workflow_name>>), Line("section", <<"Trigger Configuration">>)>>
    \o [i \in 1..Len(parsed.triggers) |->
          Line("trigger", <<parsed.triggers[i].name, parsed.triggers[i].type,
                            parsed.triggers[i].description>>)]
    \o <<Blank, Line("section", <<"Workflow Actions (Execution Order)">>), Blank,
         Line("header", <<"Step", "Action", "Type", "Description", "Depends On">>),
         Line("separator", <<>>)>>
    \o [i \in 1..Len(parsed.actions) |-> ActionRow(i, parsed.actions[i])]
    \o <<Blank>>
    \o (IF Len(parsed.connections) > 0
        THEN <<Line("section", <<"API Connections">>)>>
             \o [i \in 1..Len(parsed.connections) |->
                   Line("connection", <<Text(parsed.connections[i])>>)]
             \o <<Blank>>
        ELSE <<>>)
    \o (IF Len(parsed.data_sources) > 0
        THEN <<Line("section", <<"Data Sources">>)>>
             \o [i \in 1..Len(parsed.data_sources) |->
                   Line("datasource",
                        <<parsed.data_sources[i].type,
                          IF parsed.data_sources[i].operation = PyNone
                          THEN "N/A" ELSE parsed.data_sources[i].operation>>)]
             \o <<Blank>>
        ELSE <<>>)

(***************************************************************************)
(* The workflow definitions the parser is run on.                          *)
(***************************************************************************)
NamePool == <<"A", "B", "C", "D", "E">>

\* a runAfter key that names no action of the definition
Missing == "X"

Names(n) == {NamePool[i] : i \in 1..n}

\* the permutations of a set: the orders in which a set of strings can iterate
Perms(S) ==
    {f \in [1..Cardinality(S) -> S] : \A i, j \in 1..Cardinality(S) : f[i] = f[j] => i = j}

\* the runAfter mapping of action `name` under the edge set E, keys in pool order
RunAfterOf(E, name, n) ==
    Restrict([i \in 1..(n + 1) |-> IF i <= n THEN NamePool[i] ELSE Missing],
             {e[2] : e \in {x \in E : x[1] = name}})

GraphActions(n, E) ==
    [i \in 1..n |-> [name |-> NamePool[i], type |-> "Compose",
                     runAfter |-> RunAfterOf(E, NamePool[i], n), inputs |-> Absent]]

\* definitions with every dependency graph of at most MaxEdges edges on at most
\* MaxActions actions: acyclic, cyclic, self-dependent, with missing predecessors
GraphDefinitions ==
    UNION {{[empty |-> FALSE, triggers |-> <<>>, actions |-> GraphActions(n, E)] :
              E \in {F \in SUBSET (Names(n) \X (Names(n) \cup {Missing})) :
                       Cardinality(F) <= MaxEdges}} : n \in 0..MaxActions}

SqlInputs ==
    Dict(<<KV("host", Dict(<<KV("apiId", Str("/apis/sql")),
                             KV("connection", Dict(<<KV("referenceName", Str("sql-connection"))>>))>>)),
           KV("path", Str("/executeStoredProcedure/sp_GetData"))>>)

SqlQueryInputs ==
    Dict(<<KV("host", Dict(<<KV("apiId", Str("/apis/SQL")),
                             KV("connection", Dict(<<KV("referenceName", Str("sql-connection"))>>))>>)),
           KV("body", Dict(<<KV("query", Str("select 1")), KV("Password", Str("p"))>>))>>)

BlobInputs ==
    Dict(<<KV("host", Dict(<<KV("apiId", Str("/apis/azureblob")),
                             KV("connection", Dict(<<KV("referenceName", Str("blob"))>>))>>)),
           KV("path", Str("/files")),
           KV("queries", Dict(<<KV("sig", Str("s")), KV("folder", Str("in"))>>))>>)

HttpInputs ==
    Dict(<<KV("method", Str("POST")), KV("uri", Str("https://example.org/api")),
           KV("authentication", Dict(<<KV("type", Str("Basic"))>>)),
           KV("headers", List(<<Item(Dict(<<KV("api-key", Str("k")), KV("name", Str("x"))>>))>>))>>)

ResponseInputs ==
    Dict(<<KV("statusCode", Num("200")),
           KV("body", Dict(<<KV("accessToken", Str("t")),
                             KV("rows", List(<<Item(Str("plain")),
                                               Item(Dict(<<KV("clientSecret", Str("s"))>>))>>)),
                             KV("meta", Dict(<<KV("signature", Str("g")), KV("note", Str("n"))>>))>>))>>)

ActionShapes ==
    {[type |-> "ParseJson", inputs |-> Absent],
     [type |-> PyNone, inputs |-> EmptyDict],
     [type |-> "Response", inputs |-> ResponseInputs],
     [type |-> "Http", inputs |-> HttpInputs],
     [type |-> "ApiConnection", inputs |-> SqlInputs],
     [type |-> "ApiConnection", inputs |-> SqlQueryInputs],
     [type |-> "ApiConnection", inputs |-> BlobInputs],
     [type |-> "Response", inputs |-> Str("oops")],
     [type |-> "Http", inputs |-> Null],
     [type |-> "ApiConnection", inputs |-> List(<<Item(Str("x"))>>)],
     [type |-> "Compose", inputs |-> Num("7")]}

ManualTrigger ==
    [name |-> "manual", type |-> "Request", kind |-> "Http",
     inputs |-> Dict(<<KV("method", Str("POST"))>>), recurrence |-> EmptyDict]

ShapeActions(n, shape, chain) ==
    [i \in 1..n |-> [name |-> NamePool[i], type |-> shape[i].type,
                     runAfter |-> IF chain /\ i > 1 THEN <<NamePool[i - 1]>> ELSE <<>>,
                     inputs |-> shape[i].inputs]]

\* definitions of at most MaxShapeActions actions of every shape, independent or
\* chained
ShapeDefinitions ==
    UNION {{[empty |-> FALSE, triggers |-> <<ManualTrigger>>,
             actions |-> ShapeActions(n, shape, chain)] :
               shape \in [1..n -> ActionShapes], chain \in BOOLEAN} : n \in 1..MaxShapeActions}

\* parse({})
EmptyDefinition == [empty |-> TRUE, triggers |-> <<>>, actions |-> <<>>]

Definitions == {EmptyDefinition} \cup GraphDefinitions \cup ShapeDefinitions

(***************************************************************************)
(* ConfigurationAggregator.__init__                                        *)
(***************************************************************************)
EmptyMap == [x \in {} |-> Absent]

\* the values datetime.now().isoformat() takes
CollectionDates == {"2024-01-01T00:00:00", "2024-06-30T12:00:00"}

\* self.config of an aggregator constructed at `now`
InitConfig(now) ==
    [metadata |-> [collection_date |-> now, version |-> "1.0"],
     shared_infrastructure |-> EmptyMap, service |-> EmptyMap]

\* the parser runs construct no aggregator; config stays this one
IdleConfig == InitConfig("2024-01-01T00:00:00")

(***************************************************************************)
(* WorkflowParser as a state machine: one parse_workflow call followed by  *)
(* generate_markdown, as in the script's __main__.                         *)
(***************************************************************************)
Init ==
    /\ definition \in Definitions
    /\ hashOrder \in Perms(Keys(definition.actions))
    /\ pc = "call"
    /\ ordered = <<>>
    /\ remaining = {}
    /\ iteration = 0
    /\ running = FALSE
    /\ result = EmptyResult
    /\ doc = <<>>
    /\ firstOrder = <<>>
    /\ runs = 1
    /\ config = IdleConfig
    /\ calls = <<>>
    /\ before = IdleConfig

\* lines 30-31: if not definition: return result
ParseEmpty ==
    /\ pc = "call"
    /\ definition.empty
    /\ pc' = "returned"
    /\ result' = EmptyResult
    /\ UNCHANGED <<definition, hashOrder, ordered, remaining, iteration, running,
                   doc, firstOrder, runs, config, calls, before>>

\* lines 33-44 and 72-75: the triggers, then _order_actions is entered
ParseStart ==
    /\ pc = "call"
    /\ ~definition.empty
    /\ pc' = "order"
    /\ result' = WithTriggers(definition)
    /\ ordered' = OrderStart(definition.actions).ordered
    /\ remaining' = OrderStart(definition.actions).remaining
    /\ iteration' = OrderStart(definition.actions).iteration
    /\ running' = OrderStart(definition.actions).running
    /\ UNCHANGED <<definition, hashOrder, doc, firstOrder, runs, config, calls, before>>

\* lines 77-88: the loop test and one scan round
OrderScan ==
    /\ pc = "order"
    /\ running
    /\ LET st == OrderStep(definition.actions, hashOrder,
                           [ordered |-> ordered, remaining |-> remaining,
                            iteration |-> iteration, running |-> running])
       IN  /\ ordered' = st.ordered
           /\ remaining' = st.remaining
           /\ iteration' = st.iteration
           /\ running' = st.running
    /\ UNCHANGED <<definition, hashOrder, pc, result, doc, firstOrder, runs, config, calls, before>>

\* line 90 and lines 46-67: _order_actions returns, the actions are walked
ParseActions ==
    /\ pc = "order"
    /\ ~running
    /\ LET res == ParseActionsLoop(definition.actions, result, ordered)
       IN  /\ result' = res
           /\ pc' = IF res.raised THEN "raised" ELSE "returned"
    /\ UNCHANGED <<definition, hashOrder, ordered, remaining, iteration, running,
                   doc, firstOrder, runs, config, calls, before>>

\* lines 475-476: generate_markdown(parsed, ...)
Render ==
    /\ pc = "returned"
    /\ doc' = GenerateMarkdown(result, "Workflow")
    /\ pc' = "rendered"
    /\ UNCHANGED <<definition, hashOrder, ordered, remaining, iteration, running,
                   result, firstOrder, runs, config, calls, before>>

Next == ParseEmpty \/ ParseStart \/ OrderScan \/ ParseActions \/ Render

Spec == Init /\ [][Next]_vars

\* the collector is run again on the same definition: a new interpreter process,
\* whose string hashes, and so the iteration order of set(actions.keys()), are
\* drawn afresh
ParseAgain ==
    /\ pc = "returned"
    /\ runs < MaxRuns
    /\ runs' = runs + 1
    /\ firstOrder' = [i \in 1..Len(result.actions) |-> result.actions[i].name]
    /\ hashOrder' \in Perms(Keys(definition.actions))
    /\ pc' = "call"
    /\ ordered' = <<>>
    /\ remaining' = {}
    /\ iteration' = 0
    /\ running' = FALSE
    /\ result' = EmptyResult
    /\ UNCHANGED <<definition, doc, config, calls, before>>

NextRuns == Next \/ ParseAgain

SpecRuns == Init /\ [][NextRuns]_vars

\* The parser on the dependency graphs of at most MaxLiveActions actions; the
\* interpreter keeps executing the call until it returns or raises.
InitGraphs ==
    /\ Init
    /\ definition \in {EmptyDefinition} \cup GraphDefinitions
    /\ Len(definition.actions) <= MaxLiveActions

FairSpec == InitGraphs /\ [][Next]_vars /\ WF_vars(Next)

(***************************************************************************)
(* Vocabulary of the properties.                                           *)
(***************************************************************************)
\* parse_workflow has returned a ParsedWorkflow
Returned == pc \in {"returned", "rendered"}

\* the while loop of _order_actions has been left
LoopLeft == pc \in {"returned", "raised", "rendered"} \/ (pc = "order" /\ ~running)

\* the names of parsed.actions, in order
ParsedNames == [i \in 1..Len(result.actions) |-> result.actions[i].name]

\* the keys of the actions mapping, in the mapping's order
InputNames == [i \in 1..Len(definition.actions) |-> definition.actions[i].name]

Occurrences(seq, x) == Cardinality({i \in 1..Len(seq) : seq[i] = x})

\* the predecessors of an action: the keys of its runAfter
Preds(name) == SeqRange(ActionNamed(definition.actions, name).runAfter)

\* the actions reachable from the set S along runAfter edges in at most k steps
RECURSIVE Ancestors(_, _)
Ancestors(S, k) ==
    IF k = 0 THEN S
    ELSE Ancestors(S \cup UNION {Preds(a) \cap Keys(definition.actions) : a \in S}, k - 1)

\* no action depends on itself, directly or through other actions
Acyclic ==
    \A a \in Keys(definition.actions) :
        a \notin Ancestors(Preds(a) \cap Keys(definition.actions), Len(definition.actions))

\* every runAfter key names an action of the definition
NoMissing == \A a \in Keys(definition.actions) : Preds(a) \subseteq Keys(definition.actions)

(***************************************************************************)
(* C1  Completeness of parse: parsed.actions has as many entries as the    *)
(* actions mapping has keys and holds every key exactly once and nothing   *)
(* else; the ordering loop is never left with an action unplaced.          *)
(***************************************************************************)
C1_Completeness ==
    /\ LoopLeft =>
          /\ Len(ordered) = Len(definition.actions)
          /\ \A a \in Keys(definition.actions) : Occurrences(ordered, a) = 1
    /\ Returned =>
          /\ Len(result.actions) = Len(definition.actions)
          /\ \A a \in Keys(definition.actions) : Occurrences(ParsedNames, a) = 1
          /\ SeqRange(ParsedNames) \subseteq Keys(definition.actions)

\* a definition of three actions whose ordering degraded has been parsed
C1_Witness ==
    /\ Returned
    /\ Len(result.actions) = 3
    /\ remaining # {}

(***************************************************************************)
(* C2  Ordering validity, as amended: when the runAfter graph is acyclic   *)
(* and every runAfter key names an action of the definition, every         *)
(* predecessor of an action is placed strictly before it in                *)
(* parsed.actions.                                                         *)
(***************************************************************************)
C2_OrderingValid ==
    (Returned /\ Acyclic /\ NoMissing) =>
        \A a \in Keys(definition.actions) : \A p \in Preds(a) :
            /\ InSeq(p, ParsedNames)
            /\ IndexOf(ParsedNames, p) < IndexOf(ParsedNames, a)

\* an acyclic definition in which one action has two predecessors has been parsed
C2_Witness ==
    /\ Returned
    /\ Acyclic
    /\ NoMissing
    /\ \E a \in Keys(definition.actions) : Cardinality(Preds(a)) = 2

\* C2 as claimed: acyclic alone suffices; read in the claim's favour, only the
\* predecessors that are actions have to come first
C2_AcyclicOrdered ==
    (Returned /\ Acyclic) =>
        \A a \in Keys(definition.actions) :
            \A p \in Preds(a) \cap Keys(definition.actions) :
                IndexOf(ParsedNames, p) < IndexOf(ParsedNames, a)

(***************************************************************************)
(* C3  Termination of ordering: the loop makes at most 2*N scan rounds,    *)
(* every pass of the loop that stays in it is a counted round, in the loop *)
(* a step is always possible, the call leaves the loop, and parse returns  *)
(* a result.                                                               *)
(***************************************************************************)
C3_Termination ==
    /\ [](iteration <= 2 * Len(definition.actions))
    /\ [](pc = "order" => ENABLED (OrderScan \/ ParseActions))
    /\ [][(pc = "order" /\ running') => iteration' = iteration + 1]_vars
    /\ (pc = "call" /\ ~definition.empty) ~> LoopLeft
    /\ (pc = "call") ~> Returned

\* the loop has been left on a cyclic graph after one action was placed
C3_Witness ==
    /\ LoopLeft
    /\ ~Acyclic
    /\ iteration = 2
    /\ remaining # {}

(***************************************************************************)
(* C4  Determinism of the execution order: a second parse of the same      *)
(* definition returns the actions in the same order as the first.          *)
(***************************************************************************)
C4_Deterministic == (Returned /\ runs > 1) => ParsedNames = firstOrder

(***************************************************************************)
(* C5  Degraded ordering keeps input order: when a scan places nothing,    *)
(* the remaining actions are appended in the order of the actions mapping. *)
(***************************************************************************)
C5_InputOrder ==
    (LoopLeft /\ remaining # {}) =>
        SubSeq(ordered, Len(ordered) - Cardinality(remaining) + 1, Len(ordered))
            = Restrict(InputNames, remaining)

(***************************************************************************)
(* C6  Redaction: in the sanitized inputs of every action, the value under *)
(* every key whose lowercased name contains "password", "secret", "key",   *)
(* "token" or "sig" is the marker, wherever the key lies (in a mapping     *)
(* reached through mapping values or through list elements), and every     *)
(* other value is the input's.                                             *)
(***************************************************************************)
ClaimedSensitive(key) ==
    \E w \in {"password", "secret", "key", "token", "sig"} : Contains(w, Lower(key))

\* the sanitized value the claim describes
RECURSIVE ClaimedSanitized(_)
ClaimedSanitized(v) ==
    CASE v.t = "dict" ->
            Dict([i \in 1..Len(v.kids) |->
                    IF ClaimedSensitive(v.kids[i].k) THEN KV(v.kids[i].k, Str(REDACTED))
                    ELSE KV(v.kids[i].k, ClaimedSanitized(v.kids[i].v))])
      [] v.t = "list" ->
            List([i \in 1..Len(v.kids) |-> Item(ClaimedSanitized(v.kids[i].v))])
      [] OTHER -> v

C6_Redaction ==
    Returned =>
        \A i \in 1..Len(result.actions) :
            LET inputs == InputsOf(ActionNamed(definition.actions, result.actions[i].name))
            IN  IsDict(inputs) => result.actions[i].inputs = ClaimedSanitized(inputs)

(***************************************************************************)
(* C7  No error on malformed shape: with an action whose inputs is not a   *)
(* mapping, parse does not raise, and that action gets empty sanitized     *)
(* inputs, no connection and no data-source entry.                         *)
(***************************************************************************)
Malformed(action) == ~IsDict(InputsOf(action))

C7_NoRaise ==
    (\E i \in 1..Len(definition.actions) : Malformed(definition.actions[i])) =>
        /\ pc # "raised"
        /\ Returned =>
              \A i \in 1..Len(result.actions) :
                  LET action == ActionNamed(definition.actions, result.actions[i].name)
                  IN  Malformed(action) =>
                          /\ result.actions[i].inputs = EmptyDict
                          /\ ExtractConnection(action) = Absent
                          /\ IdentifyDataSource(action) = NoDataSource

(***************************************************************************)
(* C9  Connections are distinct and in first-occurrence order:             *)
(* parsed.connections holds each connection reference name found on an     *)
(* action exactly once, nothing else, in the order in which the names are  *)
(* first met walking parsed.actions.                                       *)
(***************************************************************************)
\* the reference name of the i-th action of parsed.actions, Absent if it has none
RefAt(i) == ExtractConnection(ActionNamed(definition.actions, result.actions[i].name))

FirstAt(ref) == CHOOSE i \in 1..Len(result.actions) :
                    RefAt(i) = ref /\ \A j \in 1..(i - 1) : RefAt(j) # ref

C9_WitnessOrder ==
    /\ Returned
    /\ Len(result.connections) = 2

(***************************************************************************)
(* C10  Render table follows the execution order: one data row per entry   *)
(* of parsed.actions, the i-th with step index i, the i-th name and, last, *)
(* the comma-joined run_after names or "-" when there are none; for        *)
(* parse({}) the header row only, no connections and no data-sources       *)
(* section.                                                                *)
(***************************************************************************)
LinesOfKind(kind) ==
    LET keep == {i \in 1..Len(doc) : doc[i].kind = kind}
        RECURSIVE Pick(_)
        Pick(i) == IF i > Len(doc) THEN <<>>
                   ELSE IF i \in keep THEN <<doc[i]>> \o Pick(i + 1) ELSE Pick(i + 1)
    IN  Pick(1)

\* the decimal numeral of a step index below 10
Numeral(i) == SubSeq("123456789", i, i)

C10_RenderTable ==
    pc = "rendered" =>
        LET rows == LinesOfKind("row")
        IN  /\ Len(rows) = Len(result.actions)
            /\ Len(LinesOfKind("header")) = 1
            /\ \A i \in 1..Len(rows) :
                  /\ rows[i].cells[1] = Numeral(i)
                  /\ rows[i].cells[2] = result.actions[i].name
                  /\ rows[i].cells[5] =
                        IF Len(result.actions[i].run_after) = 0 THEN "-"
                        ELSE JoinComma(result.actions[i].run_after)
            /\ definition.empty =>
                  /\ Len(rows) = 0
                  /\ \A i \in 1..Len(doc) :
                        /\ doc[i].kind \notin {"connection", "datasource"}
                        /\ doc[i].cells \notin {<<"API Connections">>, <<"Data Sources">>}

\* a table of three rows, one without and one with two dependencies
C10_Witness ==
    /\ pc = "rendered"
    /\ Len(LinesOfKind("row")) = 3
    /\ \E i, j \in 1..3 :
          /\ LinesOfKind("row")[i].cells[5] = "-"
          /\ Len(result.actions[j].run_after) = 2

\* parse({}) has been rendered
C10_WitnessEmpty == pc = "rendered" /\ definition.empty

(***************************************************************************)
(* C11  Partial degradation keeps the resolvable part ordered: whatever    *)
(* the definition (cycles and runAfter names that are no actions           *)
(* included), every resolvable action is placed after all of its           *)
(* predecessors and before every unresolvable action, so that only an      *)
(* unresolvable action can stand before one of its own predecessors.  An   *)
(* action is resolvable when all keys of its runAfter are resolvable       *)
(* actions of the definition.                                              *)
(***************************************************************************)
\* the actions found resolvable within k rounds
RECURSIVE ResolvableIn(_)
ResolvableIn(k) ==
    IF k = 0 THEN {}
    ELSE UNION {{a \in Keys(definition.actions) : Preds(a) \subseteq R} :
                   R \in {ResolvableIn(k - 1)}}

Resolvable == ResolvableIn(Len(definition.actions))

Unresolvable == Keys(definition.actions) \ Resolvable

\* name a stands before name b in parsed.actions
Before(a, b) ==
    /\ InSeq(a, ParsedNames)
    /\ InSeq(b, ParsedNames)
    /\ IndexOf(ParsedNames, a) < IndexOf(ParsedNames, b)

C11_PartialDegradation ==
    Returned =>
        \A R \in {Resolvable} :
            /\ \A a \in R :
                  /\ \A p \in Preds(a) : Before(p, a)
                  /\ \A u \in Keys(definition.actions) \ R : Before(a, u)
            /\ \A a \in Keys(definition.actions) :
                  (\E p \in Preds(a) : a = p \/ Before(a, p)) => a \notin R

\* a definition has been parsed in which a resolvable action has a predecessor
\* and another action is unresolvable
C11_Witness ==
    /\ Returned
    /\ \E a \in Resolvable : Preds(a) # {}
    /\ Unresolvable # {}

(***************************************************************************)
(* ConfigurationAggregator.  self.config["service"] is a function from the *)
(* category keys present to their values; a value is the JSON value the    *)
(* add operation builds, a key whose .get() found nothing holding Null.    *)
(***************************************************************************)
Categories ==
    {"apim", "api", "logic_app", "workflow", "connections", "data_gateway",
     "key_vault", "app_insights"}

\* mapping[key] = value
Put(mapping, key, value) ==
    [x \in DOMAIN mapping \cup {key} |-> IF x = key THEN value ELSE mapping[x]]

\* d.get(key) as stored: None for a missing key
Field(d, key) == IF Get(d, key) = Absent THEN Null ELSE Get(d, key)

\* d.get(outer, {}).get(key)
Nested(d, outer, key) == Field(GetOr(d, outer, EmptyDict), key)

\* the value add_apim_config stores
ApimValue(apim_data) ==
    Dict(<<KV("resource_name", Field(apim_data, "name")),
           KV("resource_group", Field(apim_data, "resourceGroup")),
           KV("region", Field(apim_data, "location")),
           KV("sku", Nested(apim_data, "sku", "name")),
           KV("capacity", Nested(apim_data, "sku", "capacity")),
           KV("gateway_url", Field(apim_data, "gatewayUrl")),
           KV("developer_portal_url", Field(apim_data, "developerPortalUrl")),
           KV("virtual_network_type", Field(apim_data, "virtualNetworkType")),
           KV("identity", Dict(<<KV("type", Nested(apim_data, "identity", "type")),
                                 KV("principal_id", Nested(apim_data, "identity", "principalId"))>>))>>)

\* _identify_backend: the group of re.search(r"https://([^.]+)\.azurewebsites\.net")
BackendName(url) ==
    LET FirstDot(i) ==
            LET dots == {j \in i..Len(url) : SubSeq(url, j, j) = "."}
            IN  IF dots = {} THEN 0 ELSE CHOOSE j \in dots : \A k \in dots : j <= k
        hits == {i \in 1..Len(url) :
                    /\ Slice(url, i, i + 7) = "https://"
                    /\ FirstDot(i + 8) > i + 8
                    /\ Slice(url, FirstDot(i + 8), FirstDot(i + 8) + 17) = ".azurewebsites.net"}
    IN  IF hits = {} THEN "Unknown"
        ELSE LET i == CHOOSE h \in hits : \A k \in hits : h <= k
             IN  SubSeq(url, i + 8, FirstDot(i + 8) - 1)

IdentifyBackend(url) ==
    IF Contains("azurewebsites.net", url)
    THEN Dict(<<KV("type", Str("Logic App Standard")), KV("name", Str(BackendName(url)))>>)
    ELSE IF Contains("logic.azure.com", url)
    THEN Dict(<<KV("type", Str("Logic App Consumption"))>>)
    ELSE IF Contains("azure-api.net", url)
    THEN Dict(<<KV("type", Str("APIM Backend"))>>)
    ELSE Dict(<<KV("type", Str("External"))>>)

\* the value add_api_config stores
ApiValue(api_data) ==
    LET backend_url == GetOr(api_data, "serviceUrl", Str(""))
    IN  Dict(<<KV("name", Field(api_data, "name")),
               KV("display_name", Field(api_data, "displayName")),
               KV("path", Field(api_data, "path")),
               KV("service_url", Field(api_data, "serviceUrl")),
               KV("protocols", Field(api_data, "protocols")),
               KV("subscription_required", Field(api_data, "subscriptionRequired")),
               KV("api_version", Field(api_data, "apiVersion")),
               KV("operations", GetOr(api_data, "operations", List(<<>>)))>>
             \o (IF Truthy(backend_url)
                 THEN <<KV("backend_type", IdentifyBackend(backend_url.s))>>
                 ELSE <<>>))

\* the value add_logic_app_config stores
LogicAppValue(la_data) ==
    Dict(<<KV("resource_name", Field(la_data, "name")),
           KV("resource_group", Field(la_data, "resourceGroup")),
           KV("type", GetOr(la_data, "kind", Str("Standard"))),
           KV("region", Field(la_data, "location")),
           KV("state", Field(la_data, "state")),
           KV("identity", GetOr(la_data, "identity", EmptyDict))>>)

\* the value add_workflow_config stores
WorkflowValue(workflow_def, order, workflow_name) ==
    CHOOSE entry \in {[name |-> workflow_name, parsed |-> parsed,
                       markdown |-> GenerateMarkdown(parsed, workflow_name)] :
                         parsed \in {ParseWorkflow(workflow_def, order)}} : TRUE

\* the conn_info of one connection
ConnectionInfo(conn) ==
    LET params == GetOr(conn, "parameterValues", EmptyDict)
    IN  Dict(<<KV("name", Field(conn, "name")),
               KV("type", Nested(conn, "api", "name")),
               KV("status", IF Truthy(Get(conn, "statuses"))
                            THEN Field(Get(conn, "statuses").kids[1].v, "status")
                            ELSE Str("Unknown"))>>
             \o (IF Truthy(Get(params, "gateway"))
                 THEN <<KV("gateway", Get(params, "gateway"))>> ELSE <<>>)
             \o (IF Truthy(Get(params, "server"))
                 THEN <<KV("sql_server", Field(params, "server")),
                        KV("database", Field(params, "database"))>>
                 ELSE <<>>))

\* the value add_connection_config stores
ConnectionsValue(connections) ==
    List([i \in 1..Len(connections.kids) |-> Item(ConnectionInfo(connections.kids[i].v))])

\* the value add_data_gateway_config stores
DataGatewayValue(gateway_data) ==
    LET install == GetOr(GetOr(gateway_data, "properties", EmptyDict),
                         "connectionGatewayInstallation", EmptyDict)
    IN  Dict(<<KV("name", Field(gateway_data, "name")),
               KV("resource_group", Field(gateway_data, "resourceGroup")),
               KV("region", Field(gateway_data, "location")),
               KV("type", Field(install, "name")),
               KV("machine_name", Field(install, "machineName"))>>)

\* the value add_keyvault_config stores
KeyVaultValue(kv_data, secrets) ==
    Dict(<<KV("name", Field(kv_data, "name")),
           KV("resource_group", Field(kv_data, "resourceGroup")),
           KV("region", Field(kv_data, "location")),
           KV("sku", Field(GetOr(GetOr(kv_data, "properties", EmptyDict), "sku", EmptyDict), "name")),
           KV("vault_uri", Nested(kv_data, "properties", "vaultUri")),
           KV("soft_delete_enabled", Nested(kv_data, "properties", "enableSoftDelete")),
           KV("purge_protection", Nested(kv_data, "properties", "enablePurgeProtection")),
           KV("secrets", List([i \in 1..Len(secrets.kids) |->
                                 Item(Dict(<<KV("name", Field(secrets.kids[i].v, "name")),
                                             KV("enabled", Field(secrets.kids[i].v, "enabled"))>>))]))>>)

\* the value add_app_insights_config stores
AppInsightsValue(ai_data) ==
    Dict(<<KV("name", Field(ai_data, "name")),
           KV("resource_group", Field(ai_data, "resourceGroup")),
           KV("region", Field(ai_data, "location")),
           KV("instrumentation_key", Nested(ai_data, "properties", "InstrumentationKey")),
           KV("connection_string", Nested(ai_data, "properties", "ConnectionString")),
           KV("workspace_id", Nested(ai_data, "properties", "WorkspaceResourceId")),
           KV("retention_days", Nested(ai_data, "properties", "RetentionInDays"))>>)

\* The add operations as functions of config and their arguments.
add_apim_config(cfg, apim_data) ==
    [cfg EXCEPT !.service = Put(@, "apim", ApimValue(apim_data))]

add_api_config_under_apim(cfg, api_data) ==
    [cfg EXCEPT !.service = Put(@, "apim", ApiValue(api_data))]

add_api_config(cfg, api_data) ==
    [cfg EXCEPT !.service = Put(@, "api", ApiValue(api_data))]

add_logic_app_config(cfg, la_data) ==
    [cfg EXCEPT !.service = Put(@, "logic_app", LogicAppValue(la_data))]

\* parse_workflow raising leaves add_workflow_config before its assignment
add_workflow_config(cfg, workflow_def, order, workflow_name) ==
    IF ParseWorkflow(workflow_def, order).raised THEN cfg
    ELSE [cfg EXCEPT !.service =
            Put(@, "workflow", WorkflowValue(workflow_def, order, workflow_name))]

add_connection_config(cfg, connections) ==
    [cfg EXCEPT !.service = Put(@, "connections", ConnectionsValue(connections))]

add_data_gateway_config(cfg, gateway_data) ==
    [cfg EXCEPT !.service = Put(@, "data_gateway", DataGatewayValue(gateway_data))]

\* secrets or []
SecretsOrEmpty(secrets) == IF Truthy(secrets) THEN secrets ELSE List(<<>>)

add_keyvault_config(cfg, kv_data, secrets) ==
    [cfg EXCEPT !.service = Put(@, "key_vault", KeyVaultValue(kv_data, SecretsOrEmpty(secrets)))]

add_app_insights_config(cfg, ai_data) ==
    [cfg EXCEPT !.service = Put(@, "app_insights", AppInsightsValue(ai_data))]

set_metadata(cfg, service_name, environment, subscription) ==
    [cfg EXCEPT !.metadata =
        Put(Put(Put(@, "service_name", service_name), "environment", environment),
            "subscription", subscription)]

set_shared_infrastructure(cfg, front_door, waf) ==
    [cfg EXCEPT !.shared_infrastructure =
        LET withFd == IF Truthy(front_door) THEN Put(@, "front_door", front_door) ELSE @
        IN  IF Truthy(waf) THEN Put(withFd, "waf", waf) ELSE withFd]

(***************************************************************************)
(* The payloads the aggregator is fed.                                     *)
(***************************************************************************)
ApimPayloads ==
    {Dict(<<KV("name", Str("apim-1")), KV("resourceGroup", Str("rg")),
            KV("sku", Dict(<<KV("name", Str("Developer")), KV("capacity", Num("1"))>>))>>)}

ApiPayloads ==
    {Dict(<<KV("name", Str("orders")),
            KV("serviceUrl", Str("https://la-orders.azurewebsites.net/api"))>>),
     Dict(<<KV("name", Str("nourl"))>>)}

LogicAppPayloads == {Dict(<<KV("name", Str("la-orders")), KV("kind", Str("Consumption"))>>)}

SampleDefinition ==
    [empty |-> FALSE, triggers |-> <<ManualTrigger>>,
     actions |-> ShapeActions(2, <<[type |-> "ParseJson", inputs |-> Absent],
                                   [type |-> "Compose", inputs |-> Num("7")]>>, TRUE)]

RaisingDefinition ==
    [empty |-> FALSE, triggers |-> <<>>,
     actions |-> ShapeActions(1, <<[type |-> "Response", inputs |-> Str("oops")]>>, FALSE)]

WorkflowPayloads == {SampleDefinition, RaisingDefinition}

ConnectionPayloads ==
    {List(<<Item(Dict(<<KV("name", Str("sql")),
                        KV("api", Dict(<<KV("name", Str("sql"))>>)),
                        KV("statuses", List(<<Item(Dict(<<KV("status", Str("Connected"))>>))>>)),
                        KV("parameterValues",
                           Dict(<<KV("server", Str("srv")), KV("database", Str("db")),
                                  KV("gateway", Dict(<<KV("id", Str("gw"))>>))>>))>>)),
            Item(Dict(<<KV("name", Str("blob"))>>))>>)}

GatewayPayloads ==
    {Dict(<<KV("name", Str("gw")),
            KV("properties", Dict(<<KV("connectionGatewayInstallation",
                                       Dict(<<KV("name", Str("inst")),
                                              KV("machineName", Str("host1"))>>))>>))>>)}

KeyVaultPayloads ==
    {Dict(<<KV("name", Str("kv")),
            KV("properties", Dict(<<KV("sku", Dict(<<KV("name", Str("standard"))>>)),
                                    KV("vaultUri", Str("https://kv.vault.azure.net"))>>))>>)}

SecretPayloads ==
    {Null, List(<<Item(Dict(<<KV("name", Str("db-pass")), KV("enabled", Str("true"))>>))>>)}

AppInsightsPayloads ==
    {Dict(<<KV("name", Str("ai")),
            KV("properties", Dict(<<KV("InstrumentationKey", Str("ik")),
                                    KV("RetentionInDays", Num("90"))>>))>>)}

FrontDoorPayloads == {Dict(<<KV("resource_name", Str("[fd-bios-prod-001]"))>>)}

WafPayloads == {Null, Dict(<<KV("policy_name", Str("[waf-bios-prod-001]"))>>)}

(***************************************************************************)
(* ConfigurationAggregator as a state machine: one aggregator, a sequence  *)
(* of at most MaxCalls operations on it.                                   *)
(***************************************************************************)
InitAgg ==
    /\ definition = EmptyDefinition
    /\ hashOrder = <<>>
    /\ pc = "agg"
    /\ ordered = <<>>
    /\ remaining = {}
    /\ iteration = 0
    /\ running = FALSE
    /\ result = EmptyResult
    /\ doc = <<>>
    /\ firstOrder = <<>>
    /\ runs = 1
    /\ config \in {InitConfig(now) : now \in CollectionDates}
    /\ calls = <<>>
    /\ before = config

\* an operation `op` with arguments `arg` takes config to `cfg`
Called(op, arg, cfg) ==
    /\ pc = "agg"
    /\ Len(calls) < MaxCalls
    /\ config' = cfg
    /\ before' = config
    /\ calls' = Append(calls, [op |-> op, arg |-> arg])
    /\ UNCHANGED <<pc, parserVars>>

SetMetadata ==
    \E env \in {"prod"} :
        Called("set_metadata", env, set_metadata(config, "orders", env, "sub-1"))

AddApimConfig ==
    \E d \in ApimPayloads : Called("add_apim_config", d, add_apim_config(config, d))

AddApiConfig ==
    \E d \in ApiPayloads : Called("add_api_config", d, add_api_config(config, d))

AddLogicAppConfig ==
    \E d \in LogicAppPayloads :
        Called("add_logic_app_config", d, add_logic_app_config(config, d))

AddWorkflowConfig ==
    \E d \in WorkflowPayloads : \E order \in Perms(Keys(d.actions)) :
        Called("add_workflow_config", [def |-> d, order |-> order],
               add_workflow_config(config, d, order, "wf"))

AddConnectionConfig ==
    \E d \in ConnectionPayloads :
        Called("add_connection_config", d, add_connection_config(config, d))

AddDataGatewayConfig ==
    \E d \in GatewayPayloads :
        Called("add_data_gateway_config", d, add_data_gateway_config(config, d))

AddKeyvaultConfig ==
    \E d \in KeyVaultPayloads : \E secrets \in SecretPayloads :
        Called("add_keyvault_config", [kv |-> d, secrets |-> secrets],
               add_keyvault_config(config, d, secrets))

AddAppInsightsConfig ==
    \E d \in AppInsightsPayloads :
        Called("add_app_insights_config", d, add_app_insights_config(config, d))

SetSharedInfrastructure ==
    \E fd \in FrontDoorPayloads : \E waf \in WafPayloads :
        Called("set_shared_infrastructure", [fd |-> fd, waf |-> waf],
               set_shared_infrastructure(config, fd, waf))

NextAgg ==
    \/ SetMetadata
    \/ AddApimConfig
    \/ AddApiConfig
    \/ AddLogicAppConfig
    \/ AddWorkflowConfig
    \/ AddConnectionConfig
    \/ AddDataGatewayConfig
    \/ AddKeyvaultConfig
    \/ AddAppInsightsConfig
    \/ SetSharedInfrastructure

SpecAgg == InitAgg /\ [][NextAgg]_vars

(***************************************************************************)
(* C8  Aggregator category independence: an add operation changes only the *)
(* entry of `service` for its own category and leaves the other entries,   *)
(* metadata and shared_infrastructure as they were; each category holds    *)
(* the value written by the last call for it, and `service` has no key     *)
(* outside the eight category names.                                       *)
(***************************************************************************)
CategoryOf(op) ==
    CASE op = "add_apim_config" -> "apim"
      [] op = "add_api_config" -> "api"
      [] op = "add_logic_app_config" -> "logic_app"
      [] op = "add_workflow_config" -> "workflow"
      [] op = "add_connection_config" -> "connections"
      [] op = "add_data_gateway_config" -> "data_gateway"
      [] op = "add_keyvault_config" -> "key_vault"
      [] op = "add_app_insights_config" -> "app_insights"
      [] OTHER -> "none"

\* the call wrote a value: every add call but an add_workflow_config that raised
Wrote(call) ==
    /\ CategoryOf(call.op) \in Categories
    /\ call.op = "add_workflow_config" => ~ParseWorkflow(call.arg.def, call.arg.order).raised

\* the value the call is to leave under its category
WrittenBy(call) ==
    CASE call.op = "add_apim_config" -> ApimValue(call.arg)
      [] call.op = "add_api_config" -> ApiValue(call.arg)
      [] call.op = "add_logic_app_config" -> LogicAppValue(call.arg)
      [] call.op = "add_workflow_config" -> WorkflowValue(call.arg.def, call.arg.order, "wf")
      [] call.op = "add_connection_config" -> ConnectionsValue(call.arg)
      [] call.op = "add_data_gateway_config" -> DataGatewayValue(call.arg)
      [] call.op = "add_keyvault_config" ->
            KeyVaultValue(call.arg.kv, SecretsOrEmpty(call.arg.secrets))
      [] call.op = "add_app_insights_config" -> AppInsightsValue(call.arg)

\* call i is the last call that wrote its category
LastWrite(i) ==
    /\ CategoryOf(calls[i].op) \in Categories
    /\ \A j \in (i + 1)..Len(calls) :
          CategoryOf(calls[j].op) = CategoryOf(calls[i].op) => ~Wrote(calls[j])
    /\ Wrote(calls[i])

C8_LastWriteWins ==
    /\ DOMAIN config.service \subseteq Categories
    /\ DOMAIN config = {"metadata", "shared_infrastructure", "service"}
    /\ \A c \in DOMAIN config.service :
          \E i \in 1..Len(calls) : CategoryOf(calls[i].op) = c /\ Wrote(calls[i])
    /\ \A i \in 1..Len(calls) :
          LastWrite(i) =>
              /\ CategoryOf(calls[i].op) \in DOMAIN config.service
              /\ config.service[CategoryOf(calls[i].op)] = WrittenBy(calls[i])

\* what the last call left alone
C8_Frame ==
    Len(calls) > 0 =>
        LET call == calls[Len(calls)]
        IN  CategoryOf(call.op) \in Categories =>
                /\ config.metadata = before.metadata
                /\ config.shared_infrastructure = before.shared_infrastructure
                /\ \A c \in (DOMAIN before.service \cup DOMAIN config.service)
                                \ {CategoryOf(call.op)} :
                      /\ c \in DOMAIN before.service
                      /\ c \in DOMAIN config.service
                      /\ config.service[c] = before.service[c]

C8_CategoryIndependence == C8_LastWriteWins /\ C8_Frame

\* a category was written twice with different values, another one in between
C8_Witness ==
    /\ Len(calls) = 3
    /\ calls[1].op = "add_api_config"
    /\ calls[2].op = "add_apim_config"
    /\ calls[3].op = "add_api_config"
    /\ calls[1].arg # calls[3].arg

====
